---- MODULE Spec2Model ----
(***************************************************************************)
(* Model of bit.c: a bitmap stored in an array of unsigned long words,     *)
(* with the sizing macros, test_bit, the two forward scanners, the bulk    *)
(* initialisers, the brute-force scanner, check_bits and main.             *)
(*                                                                         *)
(* Scaling.  An unsigned long has BITS_PER_LONG bits and a size_t has      *)
(* SIZE_BITS bits.  The widths are scaled down (4-bit words instead of     *)
(* 64-bit ones) so that every content of a word can be enumerated; all     *)
(* arithmetic keeps its width: words are taken modulo 2^BITS_PER_LONG and  *)
(* size_t values modulo 2^SIZE_BITS.                                       *)
(***************************************************************************)
EXTENDS Integers, Sequences, FiniteSets, TLC

(* Width of size_t in bits (scaled). *)
SIZE_BITS == 10

(* Largest bitmap length handed to the library calls of Spec; the storage  *)
(* they operate on is declared as DECLARE_BITMAP(bitmap, MaxBits).         *)
MaxBits == 11

(* Number of bits of an unsigned long (scaled). *)
BITS_PER_LONG == 4

(* Number of bits of the static bitmap test (scaled with the word width). *)
MAX_TEST_BITS == 40

SIZE_MOD == 2 ^ SIZE_BITS

SIZE_MAX == SIZE_MOD - 1

WORD_MOD == 2 ^ BITS_PER_LONG

(* ~0UL *)
ULONG_MAX == WORD_MOD - 1

(* Conversion of an arithmetic result to size_t. *)
SizeT(x) == x % SIZE_MOD

-----------------------------------------------------------------------------
(* Operations on unsigned long values. *)

RECURSIVE BitAnd(_, _)
BitAnd(x, y) ==
    IF x = 0 \/ y = 0 THEN 0
    ELSE (x % 2) * (y % 2) + 2 * BitAnd(x \div 2, y \div 2)

(* ~x *)
BitNot(x) == ULONG_MAX - x

(* x | y *)
BitOr(x, y) == x + y - BitAnd(x, y)

(* x ^ y *)
BitXor(x, y) == x + y - 2 * BitAnd(x, y)

(* x << n and x >> n for 0 <= n < BITS_PER_LONG *)
ShiftLeft(x, n) == (x * 2 ^ n) % WORD_MOD

ShiftRight(x, n) == x \div (2 ^ n)

(* __builtin_ffsl: one plus the index of the least significant set bit,    *)
(* zero when x is zero.                                                    *)
RECURSIVE Ffsl(_)
Ffsl(x) ==
    IF x = 0 THEN 0
    ELSE IF x % 2 = 1 THEN 1
    ELSE 1 + Ffsl(x \div 2)

bitops_ffs(x) == Ffsl(x)

-----------------------------------------------------------------------------
(* Sizing and masking macros. *)

(* Faulty variant: rounds down. *)
BITOPS_DIV_CEIL_Floor(numerator, denominator) ==
    SizeT(numerator) \div denominator

BITOPS_DIV_CEIL(numerator, denominator) ==
    SizeT(SizeT(numerator + denominator) - 1) \div denominator

BITS_TO_LONGS(bits) == BITOPS_DIV_CEIL(bits, BITS_PER_LONG)

(* Faulty variant: keeps the bits before start. *)
BITMAP_FIRST_WORD_MASK_NoShift(start) == ULONG_MAX

BITMAP_FIRST_WORD_MASK(start) == ShiftLeft(ULONG_MAX, start % BITS_PER_LONG)

(* Faulty variant: (1UL << (bits % BITS_PER_LONG)) - 1, empty for a full word. *)
BITMAP_LAST_WORD_MASK_LowBits(bits) ==
    ShiftLeft(1, bits % BITS_PER_LONG) - 1

(* Faulty variant: shifts by bits instead of -bits. *)
BITMAP_LAST_WORD_MASK_NoNegate(bits) ==
    ShiftRight(ULONG_MAX, bits % BITS_PER_LONG)

(* -(bits) is the size_t negation, modulo 2^SIZE_BITS. *)
BITMAP_LAST_WORD_MASK(bits) ==
    ShiftRight(ULONG_MAX, SizeT(SIZE_MOD - bits) % BITS_PER_LONG)

-----------------------------------------------------------------------------
(* Bit accessor.  A bitmap is a function from word index to word value.    *)

test_bit(bit, bitmap) ==
    LET l == bit \div BITS_PER_LONG
        b == bit % BITS_PER_LONG
    IN  BitAnd(bitmap[l], ShiftLeft(1, b)) # 0

(* Brute-force scanner.  The loop for (i = start; i < bits; i++). *)
RECURSIVE find_next_loop(_, _, _)
find_next_loop(bitmap, bits, i) ==
    IF i < bits
    THEN IF test_bit(i, bitmap) THEN i
         ELSE find_next_loop(bitmap, bits, i + 1)
    ELSE bits

find_next(bitmap, bits, start) == find_next_loop(bitmap, bits, start)

-----------------------------------------------------------------------------
(* Forward scanners.  Each returns the value returned by the C function    *)
(* in ret and the sequence of word indices it read in reads.               *)

(* for (i = first_long + 1; !t && i < l; i++) of find_next_bit *)
RECURSIVE find_next_bit_loop(_, _, _, _, _, _)
find_next_bit_loop(bitmap, l, i, t, long_lower, reads) ==
    IF t = 0 /\ i < l
    THEN find_next_bit_loop(bitmap, l, SizeT(i + 1), bitmap[i],
                            SizeT(long_lower + BITS_PER_LONG),
                            Append(reads, i))
    ELSE [t |-> t, long_lower |-> long_lower, reads |-> reads]

(* Faulty variant: without the final pos >= bits check. *)
find_next_bit_NoPosCheck(bitmap, bits, start) ==
    LET l == BITS_TO_LONGS(bits)
        first_long == start \div BITS_PER_LONG
        long_lower == start - (start % BITS_PER_LONG)
    IN  IF start >= bits
        THEN [ret |-> bits, reads |-> <<>>]
        ELSE LET t0 == BitAnd(bitmap[first_long], BITMAP_FIRST_WORD_MASK(start))
                 r == find_next_bit_loop(bitmap, l, SizeT(first_long + 1), t0,
                                         long_lower, <<first_long>>)
             IN  IF r.t = 0
                 THEN [ret |-> bits, reads |-> r.reads]
                 ELSE [ret |-> SizeT(r.long_lower + bitops_ffs(r.t) - 1),
                       reads |-> r.reads]

find_next_bit(bitmap, bits, start) ==
    LET l == BITS_TO_LONGS(bits)
        first_long == start \div BITS_PER_LONG
        long_lower == start - (start % BITS_PER_LONG)
    IN  IF start >= bits
        THEN [ret |-> bits, reads |-> <<>>]
        ELSE LET t0 == BitAnd(bitmap[first_long], BITMAP_FIRST_WORD_MASK(start))
                 r == find_next_bit_loop(bitmap, l, SizeT(first_long + 1), t0,
                                         long_lower, <<first_long>>)
             IN  IF r.t = 0
                 THEN [ret |-> bits, reads |-> r.reads]
                 ELSE LET pos == SizeT(r.long_lower + bitops_ffs(r.t) - 1)
                      IN  IF pos >= bits
                          THEN [ret |-> bits, reads |-> r.reads]
                          ELSE [ret |-> pos, reads |-> r.reads]

(* for (i = first_long + 1; !t && i < l; i++) of find_next_zero_bit *)
RECURSIVE find_next_zero_bit_loop(_, _, _, _, _, _)
find_next_zero_bit_loop(bitmap, l, i, t, long_lower, reads) ==
    IF t = 0 /\ i < l
    THEN find_next_zero_bit_loop(bitmap, l, SizeT(i + 1),
                                 BitXor(bitmap[i], ULONG_MAX),
                                 SizeT(long_lower + BITS_PER_LONG),
                                 Append(reads, i))
    ELSE [t |-> t, long_lower |-> long_lower, reads |-> reads]

(* Faulty variant: the first word is inverted but not masked. *)
find_next_zero_bit_NoFirstMask(bitmap, bits, start) ==
    LET l == BITS_TO_LONGS(bits)
        first_long == start \div BITS_PER_LONG
        long_lower == start - (start % BITS_PER_LONG)
    IN  IF start >= bits
        THEN [ret |-> bits, reads |-> <<>>]
        ELSE LET t0 == BitXor(bitmap[first_long], ULONG_MAX)
                 r == find_next_zero_bit_loop(bitmap, l, SizeT(first_long + 1),
                                              t0, long_lower, <<first_long>>)
             IN  IF r.t = 0
                 THEN [ret |-> bits, reads |-> r.reads]
                 ELSE LET pos == SizeT(r.long_lower + bitops_ffs(r.t) - 1)
                      IN  IF pos >= bits
                          THEN [ret |-> bits, reads |-> r.reads]
                          ELSE [ret |-> pos, reads |-> r.reads]

(* Faulty variant: returns start, not bits, when start >= bits. *)
find_next_zero_bit_ReturnStart(bitmap, bits, start) ==
    LET l == BITS_TO_LONGS(bits)
        first_long == start \div BITS_PER_LONG
        long_lower == start - (start % BITS_PER_LONG)
    IN  IF start >= bits
        THEN [ret |-> start, reads |-> <<>>]
        ELSE LET t0 == BitXor(BitOr(bitmap[first_long],
                                    BitNot(BITMAP_FIRST_WORD_MASK(start))),
                              ULONG_MAX)
                 r == find_next_zero_bit_loop(bitmap, l, SizeT(first_long + 1),
                                              t0, long_lower, <<first_long>>)
             IN  IF r.t = 0
                 THEN [ret |-> bits, reads |-> r.reads]
                 ELSE LET pos == SizeT(r.long_lower + bitops_ffs(r.t) - 1)
                      IN  IF pos >= bits
                          THEN [ret |-> bits, reads |-> r.reads]
                          ELSE [ret |-> pos, reads |-> r.reads]

find_next_zero_bit(bitmap, bits, start) ==
    LET l == BITS_TO_LONGS(bits)
        first_long == start \div BITS_PER_LONG
        long_lower == start - (start % BITS_PER_LONG)
    IN  IF start >= bits
        THEN [ret |-> bits, reads |-> <<>>]
        ELSE LET t0 == BitXor(BitOr(bitmap[first_long],
                                    BitNot(BITMAP_FIRST_WORD_MASK(start))),
                              ULONG_MAX)
                 r == find_next_zero_bit_loop(bitmap, l, SizeT(first_long + 1),
                                              t0, long_lower, <<first_long>>)
             IN  IF r.t = 0
                 THEN [ret |-> bits, reads |-> r.reads]
                 ELSE LET pos == SizeT(r.long_lower + bitops_ffs(r.t) - 1)
                      IN  IF pos >= bits
                          THEN [ret |-> bits, reads |-> r.reads]
                          ELSE [ret |-> pos, reads |-> r.reads]

-----------------------------------------------------------------------------
(* Bulk initialisers.  Each returns the new storage in bitmap and the set  *)
(* of word indices it wrote in writes.                                     *)

(* memset(bitmap, c, n * sizeof(unsigned long)): words 0 .. n-1 get value. *)
MemsetWords(bitmap, value, n) ==
    [w \in DOMAIN bitmap |-> IF w < n THEN value ELSE bitmap[w]]

(* Faulty variant: the last word is set to all ones too. *)
bitmap_fill_AllOnes(bitmap, bits) ==
    LET l == BITS_TO_LONGS(bits)
    IN  [bitmap |-> MemsetWords(bitmap, ULONG_MAX, l),
         writes |-> 0 .. (l - 1)]

bitmap_fill(bitmap, bits) ==
    LET l == BITS_TO_LONGS(bits)
        filled == IF l > 1 THEN MemsetWords(bitmap, ULONG_MAX, l - 1)
                  ELSE bitmap
    IN  [bitmap |-> [filled EXCEPT ![l - 1] = BITMAP_LAST_WORD_MASK(bits)],
         writes |-> (IF l > 1 THEN 0 .. (l - 2) ELSE {}) \cup {l - 1}]

(* Faulty variant: clears the whole storage, whatever bits is. *)
bitmap_zero_WholeStorage(bitmap, bits) ==
    [bitmap |-> [w \in DOMAIN bitmap |-> 0],
     writes |-> DOMAIN bitmap]

(* Faulty variant: leaves the last word as it is. *)
bitmap_zero_SkipLast(bitmap, bits) ==
    LET l == BITS_TO_LONGS(bits)
    IN  [bitmap |-> MemsetWords(bitmap, 0, l - 1),
         writes |-> 0 .. (l - 2)]

bitmap_zero(bitmap, bits) ==
    LET l == BITS_TO_LONGS(bits)
    IN  [bitmap |-> MemsetWords(bitmap, 0, l),
         writes |-> 0 .. (l - 1)]

-----------------------------------------------------------------------------
(* State.                                                                  *)
(*   test    the storage the calls operate on (word index -> word)         *)
(*   pc      position of the caller                                        *)
(*   call    the call in progress or just returned: op, bits, start        *)
(*           (for test_bit, start holds the bit index)                     *)
(*   ret     value returned by the call (test_bit: 1 for true, 0 false)    *)
(*   reads   word indices read by the call, in order                       *)
(*   writes  word indices written by the call                              *)
(*   pre     the storage as it was when the call was made                  *)
(*   last    the last bulk initialiser applied to the storage              *)
(*   i       loop variable of check_bits and of main                       *)
(*   found   results below bits returned to check_bits so far              *)
VARIABLES test, pc, call, ret, reads, writes, pre, last, i, found

vars == <<test, pc, call, ret, reads, writes, pre, last, i, found>>

NoCall == [op |-> "none", bits |-> 0, start |-> 0]

NoInit == [op |-> "none", bits |-> 0]

(* DECLARE_BITMAP(bitmap, bits): the word indices of the storage. *)
DECLARE_BITMAP(bits) == 0 .. (BITS_TO_LONGS(bits) - 1)

(* Number of bits the storage of Spec holds. *)
StorageBits == BITS_TO_LONGS(MaxBits) * BITS_PER_LONG

Range(s) == {s[k] : k \in 1 .. Len(s)}

-----------------------------------------------------------------------------
(* Spec: a caller that owns a storage with arbitrary content and makes     *)
(* library calls on it, one at a time.                                     *)

Init ==
    /\ test \in [DECLARE_BITMAP(MaxBits) -> 0 .. ULONG_MAX]
    /\ pc = "idle"
    /\ call = NoCall
    /\ ret = 0
    /\ reads = <<>>
    /\ writes = {}
    /\ pre = test
    /\ last = NoInit
    /\ i = 0
    /\ found = <<>>

CallFindNextBit ==
    /\ pc = "idle"
    /\ \E bits \in 0 .. MaxBits, start \in 0 .. (MaxBits + 1) :
          LET r == find_next_bit(test, bits, start)
          IN  /\ call' = [op |-> "find_next_bit", bits |-> bits, start |-> start]
              /\ ret' = r.ret
              /\ reads' = r.reads
    /\ pc' = "done"
    /\ pre' = test
    /\ writes' = {}
    /\ UNCHANGED <<test, last, i, found>>

CallFindNextZeroBit ==
    /\ pc = "idle"
    /\ \E bits \in 0 .. MaxBits, start \in 0 .. (MaxBits + 1) :
          LET r == find_next_zero_bit(test, bits, start)
          IN  /\ call' = [op |-> "find_next_zero_bit", bits |-> bits,
                          start |-> start]
              /\ ret' = r.ret
              /\ reads' = r.reads
    /\ pc' = "done"
    /\ pre' = test
    /\ writes' = {}
    /\ UNCHANGED <<test, last, i, found>>

CallTestBit ==
    /\ pc = "idle"
    /\ \E bit \in 0 .. (StorageBits - 1) :
          /\ call' = [op |-> "test_bit", bits |-> 0, start |-> bit]
          /\ ret' = IF test_bit(bit, test) THEN 1 ELSE 0
          /\ reads' = <<bit \div BITS_PER_LONG>>
    /\ pc' = "done"
    /\ pre' = test
    /\ writes' = {}
    /\ UNCHANGED <<test, last, i, found>>

CallBitmapFill ==
    /\ pc = "idle"
    /\ \E bits \in 1 .. MaxBits :
          LET r == bitmap_fill(test, bits)
          IN  /\ call' = [op |-> "bitmap_fill", bits |-> bits, start |-> 0]
              /\ test' = r.bitmap
              /\ writes' = r.writes
              /\ last' = [op |-> "bitmap_fill", bits |-> bits]
    /\ pc' = "done"
    /\ pre' = test
    /\ ret' = 0
    /\ reads' = <<>>
    /\ UNCHANGED <<i, found>>

CallBitmapZero ==
    /\ pc = "idle"
    /\ \E bits \in 0 .. MaxBits :
          LET r == bitmap_zero(test, bits)
          IN  /\ call' = [op |-> "bitmap_zero", bits |-> bits, start |-> 0]
              /\ test' = r.bitmap
              /\ writes' = r.writes
              /\ last' = [op |-> "bitmap_zero", bits |-> bits]
    /\ pc' = "done"
    /\ pre' = test
    /\ ret' = 0
    /\ reads' = <<>>
    /\ UNCHANGED <<i, found>>

(* The call has returned and the caller goes on. *)
Return ==
    /\ pc = "done"
    /\ pc' = "idle"
    /\ call' = NoCall
    /\ ret' = 0
    /\ reads' = <<>>
    /\ writes' = {}
    /\ pre' = test
    /\ UNCHANGED <<test, last, i, found>>

Next ==
    \/ CallFindNextBit
    \/ CallFindNextZeroBit
    \/ CallTestBit
    \/ CallBitmapFill
    \/ CallBitmapZero
    \/ Return

Spec == Init /\ [][Next]_vars

-----------------------------------------------------------------------------
(* SpecSize: the sizing macros applied to every size_t value.              *)

InitSize ==
    /\ test = [w \in DECLARE_BITMAP(MaxBits) |-> 0]
    /\ pc = "idle"
    /\ call = NoCall
    /\ ret = 0
    /\ reads = <<>>
    /\ writes = {}
    /\ pre = test
    /\ last = NoInit
    /\ i = 0
    /\ found = <<>>

CallBitsToLongs ==
    /\ pc = "idle"
    /\ \E bits \in 0 .. SIZE_MAX :
          /\ call' = [op |-> "BITS_TO_LONGS", bits |-> bits, start |-> 0]
          /\ ret' = BITS_TO_LONGS(bits)
    /\ pc' = "done"
    /\ UNCHANGED <<test, reads, writes, pre, last, i, found>>

CallLastWordMask ==
    /\ pc = "idle"
    /\ \E bits \in 0 .. SIZE_MAX :
          /\ call' = [op |-> "BITMAP_LAST_WORD_MASK", bits |-> bits, start |-> 0]
          /\ ret' = BITMAP_LAST_WORD_MASK(bits)
    /\ pc' = "done"
    /\ UNCHANGED <<test, reads, writes, pre, last, i, found>>

CallFirstWordMask ==
    /\ pc = "idle"
    /\ \E start \in 0 .. SIZE_MAX :
          /\ call' = [op |-> "BITMAP_FIRST_WORD_MASK", bits |-> 0, start |-> start]
          /\ ret' = BITMAP_FIRST_WORD_MASK(start)
    /\ pc' = "done"
    /\ UNCHANGED <<test, reads, writes, pre, last, i, found>>

NextSize ==
    \/ CallBitsToLongs
    \/ CallLastWordMask
    \/ CallFirstWordMask
    \/ Return

SpecSize == InitSize /\ [][NextSize]_vars

-----------------------------------------------------------------------------
(* SpecCheckBits: check_bits(bitmap, bits) on a storage with arbitrary     *)
(* content.  One step is one iteration of its while loop; a failed         *)
(* assert(r1 == r2) aborts the program.                                    *)

InitCheckBits ==
    /\ test \in [DECLARE_BITMAP(MaxBits) -> 0 .. ULONG_MAX]
    /\ pc = "check_loop"
    /\ \E bits \in 0 .. MaxBits :
          call = [op |-> "check_bits", bits |-> bits, start |-> 0]
    /\ ret = 0
    /\ reads = <<>>
    /\ writes = {}
    /\ pre = test
    /\ last = NoInit
    /\ i = 0
    /\ found = <<>>

CheckBitsStep ==
    /\ pc = "check_loop"
    /\ i < call.bits
    /\ LET r1 == find_next(test, call.bits, i)
           r2 == find_next_bit(test, call.bits, i)
       IN  /\ call' = [call EXCEPT !.start = i]
           /\ ret' = r2.ret
           /\ reads' = r2.reads
           /\ found' = IF r2.ret < call.bits THEN Append(found, r2.ret)
                       ELSE found
           /\ IF r1 = r2.ret
              THEN pc' = "check_loop" /\ i' = SizeT(r1 + 1)
              ELSE pc' = "check_abort" /\ i' = i
    /\ UNCHANGED <<test, writes, pre, last>>

CheckBitsExit ==
    /\ pc = "check_loop"
    /\ ~(i < call.bits)
    /\ pc' = "check_done"
    /\ UNCHANGED <<test, call, ret, reads, writes, pre, last, i, found>>

NextCheckBits ==
    \/ CheckBitsStep
    \/ CheckBitsExit

SpecCheckBits == InitCheckBits /\ [][NextCheckBits]_vars

-----------------------------------------------------------------------------
(* SpecMain: main() on the static bitmap test, which starts zeroed.        *)
(* A failed assert aborts the program.                                     *)

InitMain ==
    /\ test = [w \in DECLARE_BITMAP(MAX_TEST_BITS) |-> 0]
    /\ pc = "main_fill"
    /\ call = NoCall
    /\ ret = 0
    /\ reads = <<>>
    /\ writes = {}
    /\ pre = test
    /\ last = NoInit
    /\ i = 1
    /\ found = <<>>

(* bitmap_fill(test, i) *)
MainFill ==
    /\ pc = "main_fill"
    /\ i < MAX_TEST_BITS
    /\ LET r == bitmap_fill(test, i)
       IN  /\ test' = r.bitmap
           /\ writes' = r.writes
    /\ call' = [op |-> "bitmap_fill", bits |-> i, start |-> 0]
    /\ last' = [op |-> "bitmap_fill", bits |-> i]
    /\ pre' = test
    /\ ret' = 0
    /\ reads' = <<>>
    /\ pc' = "main_find_filled"
    /\ UNCHANGED <<i, found>>

(* assert(find_next_bit(test, i, 0) == 0) *)
MainFindFilled ==
    /\ pc = "main_find_filled"
    /\ LET r == find_next_bit(test, i, 0)
       IN  /\ ret' = r.ret
           /\ reads' = r.reads
           /\ pc' = IF r.ret = 0 THEN "main_zero" ELSE "main_abort"
    /\ call' = [op |-> "find_next_bit", bits |-> i, start |-> 0]
    /\ pre' = test
    /\ writes' = {}
    /\ UNCHANGED <<test, last, i, found>>

(* bitmap_zero(test, i) *)
MainZero ==
    /\ pc = "main_zero"
    /\ LET r == bitmap_zero(test, i)
       IN  /\ test' = r.bitmap
           /\ writes' = r.writes
    /\ call' = [op |-> "bitmap_zero", bits |-> i, start |-> 0]
    /\ last' = [op |-> "bitmap_zero", bits |-> i]
    /\ pre' = test
    /\ ret' = 0
    /\ reads' = <<>>
    /\ pc' = "main_find_zeroed"
    /\ UNCHANGED <<i, found>>

(* assert(find_next_bit(test, i, 0) == i); i++ *)
MainFindZeroed ==
    /\ pc = "main_find_zeroed"
    /\ LET r == find_next_bit(test, i, 0)
       IN  /\ ret' = r.ret
           /\ reads' = r.reads
           /\ IF r.ret = i
              THEN pc' = "main_fill" /\ i' = i + 1
              ELSE pc' = "main_abort" /\ i' = i
    /\ call' = [op |-> "find_next_bit", bits |-> i, start |-> 0]
    /\ pre' = test
    /\ writes' = {}
    /\ UNCHANGED <<test, last, found>>

(* return 0 *)
MainExit ==
    /\ pc = "main_fill"
    /\ ~(i < MAX_TEST_BITS)
    /\ pc' = "main_done"
    /\ UNCHANGED <<test, call, ret, reads, writes, pre, last, i, found>>

NextMain ==
    \/ MainFill
    \/ MainFindFilled
    \/ MainZero
    \/ MainFindZeroed
    \/ MainExit

SpecMain == InitMain /\ [][NextMain]_vars

-----------------------------------------------------------------------------
(* Properties.                                                             *)

(* ceil(n / BITS_PER_LONG) over the integers, without any width. *)
WordsFor(n) == (n + BITS_PER_LONG - 1) \div BITS_PER_LONG

(* Bit k of the storage bm, read arithmetically. *)
BitOf(bm, k) == (bm[k \div BITS_PER_LONG] \div (2 ^ (k % BITS_PER_LONG))) % 2

(* The smallest index in start .. bits-1 whose bit has value val (0 or 1), *)
(* or bits when there is none.                                             *)
LeastIndex(bm, bits, start, val) ==
    LET S == {k \in start .. (bits - 1) : BitOf(bm, k) = val}
    IN  IF S = {} THEN bits
        ELSE CHOOSE m \in S : \A k \in S : m <= k

(* The bit positions set in the word x. *)
BitsOfWord(x) == {k \in 0 .. (BITS_PER_LONG - 1) : (x \div (2 ^ k)) % 2 = 1}

(* C1: find_next_bit returns the smallest index i with start <= i < bits   *)
(* whose bit is set, or bits when there is none, whatever the storage      *)
(* holds (padding included); it agrees with the brute-force find_next.     *)
C1_Theorem ==
    (pc = "done" /\ call.op = "find_next_bit") =>
        /\ ret = LeastIndex(test, call.bits, call.start, 1)
        /\ ret = find_next(test, call.bits, call.start)

(* A scan that skips set bits before start, crosses an empty word and      *)
(* finds a content bit next to a set padding bit.                          *)
C1_Witness ==
    /\ pc = "done"
    /\ call = [op |-> "find_next_bit", bits |-> 10, start |-> 2]
    /\ test[0] = 3 /\ test[1] = 0 /\ test[2] = 10
    /\ ret = 9

(* C2: find_next_zero_bit returns the smallest index i with                *)
(* start <= i < bits whose bit is clear, or bits when there is none; a     *)
(* clear bit before start or in the padding is never returned.             *)
C2_Theorem ==
    (pc = "done" /\ call.op = "find_next_zero_bit") =>
        /\ ret = LeastIndex(test, call.bits, call.start, 0)
        /\ (ret < call.bits => ret >= call.start /\ BitOf(test, ret) = 0)

(* Clear bits before start (0, 1) and in the padding (10, 11) only: the    *)
(* scan reports not found.                                                 *)
C2_Witness ==
    /\ pc = "done"
    /\ call = [op |-> "find_next_zero_bit", bits |-> 10, start |-> 2]
    /\ test[0] = 12 /\ test[1] = 15 /\ test[2] = 3
    /\ ret = 10

(* C3: after bitmap_fill(B, bits), bits >= 1, every bit 0 .. bits-1 tests  *)
(* true and every padding bit of the last word is 0, whatever the storage  *)
(* held before; a test_bit call made after the fill returns true.          *)
C3_Theorem ==
    /\ (pc = "done" /\ call.op = "bitmap_fill") =>
          /\ \A k \in 0 .. (call.bits - 1) : test_bit(k, test)
          /\ \A k \in call.bits .. (WordsFor(call.bits) * BITS_PER_LONG - 1) :
                BitOf(test, k) = 0
    /\ (pc = "done" /\ call.op = "test_bit" /\ last.op = "bitmap_fill"
            /\ call.start < last.bits) => ret = 1

(* A fill of 6 bits over a last word whose padding bits were set. *)
C3_Witness ==
    /\ pc = "done"
    /\ call.op = "bitmap_fill"
    /\ call.bits = 6
    /\ pre[0] = 0 /\ pre[1] = 12
    /\ test[0] = 15 /\ test[1] = 3

(* C4: after bitmap_zero(B, n) every word of index below the word count of *)
(* n is 0, and a find_next_bit(B, n, 0) made next returns n; for every n.  *)
C4_Theorem ==
    /\ (pc = "done" /\ call.op = "bitmap_zero") =>
          \A w \in DOMAIN test : w < WordsFor(call.bits) => test[w] = 0
    /\ (pc = "done" /\ call.op = "find_next_bit" /\ last.op = "bitmap_zero"
            /\ call.bits = last.bits /\ call.start = 0) => ret = call.bits

(* A zero of 10 bits over a storage that was all ones, then the scan. *)
C4_Witness ==
    /\ pc = "done"
    /\ call = [op |-> "find_next_bit", bits |-> 10, start |-> 0]
    /\ last = [op |-> "bitmap_zero", bits |-> 10]
    /\ ret = 10
    /\ Len(reads) = 3

(* C5: in main neither assertion fails: find_next_bit(test, n, 0) is 0     *)
(* right after bitmap_fill(test, n) and n right after bitmap_zero(test, n),*)
(* for n = 1 .. MAX_TEST_BITS-1 in order on the one shared storage.        *)
C5_Theorem ==
    /\ pc # "main_abort"
    /\ (pc = "main_zero" => call.bits = i /\ ret = 0)
    /\ (pc \in {"main_fill", "main_done"} /\ i > 1 =>
            call.bits = i - 1 /\ ret = i - 1)
    /\ (pc = "main_done" => i = MAX_TEST_BITS)

(* main has run through all its iterations and returned. *)
C5_Witness ==
    /\ pc = "main_done"
    /\ i = MAX_TEST_BITS
    /\ ret = MAX_TEST_BITS - 1

(* C6: with start >= bits both scanners return bits and read no word of    *)
(* the storage.                                                            *)
C6_Theorem ==
    (pc = "done" /\ call.op \in {"find_next_bit", "find_next_zero_bit"}
        /\ call.start >= call.bits) =>
        /\ ret = call.bits
        /\ reads = <<>>

(* start = bits + 1 on a storage that has both set and clear bits. *)
C6_Witness ==
    /\ pc = "done"
    /\ call = [op |-> "find_next_zero_bit", bits |-> 5, start |-> 6]
    /\ test[1] = 5
    /\ ret = 5

(* C7, as claimed: BITS_TO_LONGS(bits) is ceil(bits / W) for every         *)
(* bits >= 1 of the size type.                                             *)
C7_Original ==
    (pc = "done" /\ call.op = "BITS_TO_LONGS" /\ call.bits >= 1) =>
        ret = WordsFor(call.bits)

(* C7, amended: BITS_TO_LONGS(bits) is ceil(bits / W) for every bits >= 1  *)
(* with bits + W - 1 <= SIZE_MAX; for a larger bits the sum wraps and the  *)
(* result is 0.                                                            *)
C7_Theorem ==
    (pc = "done" /\ call.op = "BITS_TO_LONGS" /\ call.bits >= 1) =>
        IF call.bits + BITS_PER_LONG - 1 <= SIZE_MAX
        THEN ret = WordsFor(call.bits)
        ELSE ret = 0

(* The largest bits whose sum does not wrap. *)
C7_Witness ==
    /\ pc = "done"
    /\ call.op = "BITS_TO_LONGS"
    /\ call.bits = SIZE_MAX - BITS_PER_LONG + 1
    /\ ret = WordsFor(SIZE_MAX - BITS_PER_LONG + 1)

(* C8: BITMAP_LAST_WORD_MASK(bits), bits >= 1, has exactly the positions   *)
(* 0 .. (bits mod W) - 1 set when bits mod W # 0 and all W positions set   *)
(* when bits is a multiple of W.                                           *)
C8_Theorem ==
    (pc = "done" /\ call.op = "BITMAP_LAST_WORD_MASK" /\ call.bits >= 1) =>
        BitsOfWord(ret) =
            IF call.bits % BITS_PER_LONG # 0
            THEN 0 .. ((call.bits % BITS_PER_LONG) - 1)
            ELSE 0 .. (BITS_PER_LONG - 1)

(* An exact multiple of the word size selects the whole word. *)
C8_Witness ==
    /\ pc = "done"
    /\ call.op = "BITMAP_LAST_WORD_MASK"
    /\ call.bits = 2 * BITS_PER_LONG
    /\ ret = ULONG_MAX

(* C9: the loop of check_bits terminates; the results it gets from         *)
(* find_next_bit are strictly increasing and are exactly the set content   *)
(* bits, each once; each scan reads at most                                *)
(* words_for(bits) - floor(start / W) words.                               *)
(* Termination is stated by its variant: every iteration either leaves    *)
(* the loop or strictly increases i, and i never exceeds bits + 1.         *)
C9_Safety ==
    /\ pc # "check_abort"
    /\ \A k \in 1 .. (Len(found) - 1) : found[k] < found[k + 1]
    /\ \A k \in 1 .. Len(found) :
          found[k] < call.bits /\ BitOf(test, found[k]) = 1
    /\ \A b \in 0 .. (call.bits - 1) :
          (b < i /\ BitOf(test, b) = 1) => b \in Range(found)
    /\ Len(reads) <= WordsFor(call.bits) - (call.start \div BITS_PER_LONG)
    /\ i <= call.bits + 1
    /\ (pc = "check_done" =>
          Range(found) = {b \in 0 .. (call.bits - 1) : BitOf(test, b) = 1})

C9_Variant ==
    pc = "check_loop" =>
        \/ pc' = "check_done"
        \/ pc' = "check_loop" /\ i' > i

C9_Theorem == [] C9_Safety /\ [][C9_Variant]_vars

(* A finished loop that visited three set bits, in three words, of a       *)
(* storage whose padding has a set bit.                                    *)
C9_Witness ==
    /\ pc = "check_done"
    /\ call.bits = 10
    /\ found = <<1, 5, 9>>
    /\ test[2] = 10

(* C10: bitmap_fill and bitmap_zero write only the words                   *)
(* 0 .. words_for(bits)-1 and leave every other word as it was; test_bit   *)
(* and the scanners leave the storage as it was, and a scanner with        *)
(* start < bits reads only words floor(start/W) .. words_for(bits)-1.      *)
C10_Theorem ==
    /\ (pc = "done" /\ call.op \in {"bitmap_fill", "bitmap_zero"}) =>
          /\ writes \subseteq 0 .. (WordsFor(call.bits) - 1)
          /\ \A w \in DOMAIN test :
                (w >= WordsFor(call.bits) \/ w \notin writes) => test[w] = pre[w]
    /\ (pc = "done"
            /\ call.op \in {"test_bit", "find_next_bit", "find_next_zero_bit"}) =>
          test = pre
    /\ (pc = "done" /\ call.op \in {"find_next_bit", "find_next_zero_bit"}
            /\ call.start < call.bits) =>
          Range(reads) \subseteq
              (call.start \div BITS_PER_LONG) .. (WordsFor(call.bits) - 1)

(* A zero of one word of a storage whose other words hold data. *)
C10_Witness ==
    /\ pc = "done"
    /\ call = [op |-> "bitmap_zero", bits |-> 3, start |-> 0]
    /\ pre[0] = 15 /\ pre[1] = 9 /\ pre[2] = 6
    /\ test[0] = 0 /\ test[1] = 9 /\ test[2] = 6

====
